---- MODULE Spec2Model ----
(***************************************************************************)
(* Model of scripts/render.py: the short-video rendering pipeline.         *)
(*                                                                         *)
(* Python strings that the program inspects character by character (the    *)
(* environment values, the sanitized query, the provider name) are         *)
(* sequences of one-character strings.  Opaque strings (links, urls) are   *)
(* TLA+ strings.  Python's None is the one-element sequence <<"None">>,    *)
(* which no text value equals because its element is not one character.    *)
(***************************************************************************)
EXTENDS Integers, Sequences, FiniteSets, TLC

VARIABLES
    environ,     \* os.environ: variable name -> text, or None when unset
    pc,          \* position of main(): start, tts, pick, fetch, download,
                 \*   encode, validate, done, failed; "off" when main() is not run
    cfg,         \* the locals main() loads from the environment (lines 103-110)
    query,       \* main(): query
    chosen,      \* main(): chosen
    video_url,   \* main(): video_url
    fs,          \* the files under out/: name -> size in bytes, Absent when missing
    procs,       \* the subprocesses started so far, in order (argv[0] of each)
    http,        \* the HTTP requests issued so far, in order
    stdout,      \* the progress markers and the summary printed so far
    summary,     \* the JSON summary of lines 163-169, NoSummary until printed
    error,       \* the message of the exception that ended main(), or NoError
    inp,         \* argument of the helper function under examination
    out,         \* its result
    op           \* which helper was applied: "idle" before the call

vars == <<environ, pc, cfg, query, chosen, video_url, fs, procs, http, stdout,
          summary, error, inp, out, op>>

----------------------------------------------------------------------------
(* Text helpers: Python str operations used by the program.                *)

None == <<"None">>

LowerLetters == <<"a","b","c","d","e","f","g","h","i","j","k","l","m",
                  "n","o","p","q","r","s","t","u","v","w","x","y","z">>

UpperLetters == <<"A","B","C","D","E","F","G","H","I","J","K","L","M",
                  "N","O","P","Q","R","S","T","U","V","W","X","Y","Z">>

Digits == {"0","1","2","3","4","5","6","7","8","9"}

Range(s) == {s[i] : i \in DOMAIN s}

\* The characters \s of re and str.strip() treat as whitespace.
IsSpace(c) == c \in {" ", "\t", "\n", "\r", "\f"}

\* The complement of the class [^a-zA-Z0-9 _-] of line 19.
IsAllowed(c) ==
    c \in Range(LowerLetters) \cup Range(UpperLetters) \cup Digits \cup {" ", "_", "-"}

\* str.upper() on one character.
UpperChar(c) ==
    IF c \in Range(LowerLetters)
    THEN UpperLetters[CHOOSE i \in DOMAIN LowerLetters : LowerLetters[i] = c]
    ELSE c

\* str.upper()
Upper(s) == [i \in DOMAIN s |-> UpperChar(s[i])]

RECURSIVE LStrip(_)
LStrip(s) ==
    IF s # <<>> /\ IsSpace(Head(s)) THEN LStrip(Tail(s)) ELSE s

RECURSIVE RStrip(_)
RStrip(s) ==
    IF s # <<>> /\ IsSpace(s[Len(s)]) THEN RStrip(SubSeq(s, 1, Len(s) - 1)) ELSE s

\* str.strip()
Strip(s) == LStrip(RStrip(s))

\* re.sub(r"\s+", " ", s): every maximal run of whitespace becomes one space.
RECURSIVE CollapseSpaces(_)
CollapseSpaces(s) ==
    IF s = <<>> THEN <<>>
    ELSE IF IsSpace(Head(s)) THEN <<" ">> \o CollapseSpaces(LStrip(Tail(s)))
    ELSE <<Head(s)>> \o CollapseSpaces(Tail(s))

\* re.sub(r"[^a-zA-Z0-9 _-]", "", s)
RemoveDisallowed(s) == SelectSeq(s, IsAllowed)

\* s[:n]
Prefix(s, n) == SubSeq(s, 1, IF n < Len(s) THEN n ELSE Len(s))

short == <<"s","h","o","r","t">>

\* safe_filename(s, max_len), lines 17-20.
safe_filename(s, max_len) ==
    LET s1 == Strip(CollapseSpaces(s))
        s2 == RemoveDisallowed(s1)
        s3 == Strip(Prefix(s2, max_len))
    IN  IF s3 = <<>> THEN short ELSE s3

\* env(name, default), lines 13-15, reading the environment e.
envOf(e, name, default) ==
    IF e[name] # None /\ e[name] # <<>> THEN e[name] ELSE default

PEXELS == <<"P","E","X","E","L","S">>
PIXABAY == <<"P","I","X","A","B","A","Y">>
BOTH == <<"B","O","T","H">>

pick_provider_CaseSensitive(provider) ==
    LET p == Strip(IF provider # <<>> THEN provider ELSE BOTH)
    IN  IF p \in {PEXELS, PIXABAY} THEN {p} ELSE {PEXELS, PIXABAY}

\* pick_provider(provider), lines 28-32: the set of values it may return
\* (one value when the preference names a provider, both otherwise).
pick_provider(provider) ==
    LET p == Strip(Upper(IF provider # <<>> THEN provider ELSE BOTH))
    IN  IF p \in {PEXELS, PIXABAY} THEN {p} ELSE {PEXELS, PIXABAY}

----------------------------------------------------------------------------
(* Provider responses and candidate selection.                             *)

NoError == "none"
Missing == "<missing>"     \* dict.get(key) of a key the JSON object lacks
NoDim == -1                \* a file variant without "width" / "height"

\* bool(x) of a string-or-None value read with dict.get.
Truthy(x) == x # Missing /\ x # ""

\* f.get("width", 0) and f.get("height", 1), line 60.
WidthOf(f) == IF f.width = NoDim THEN 0 ELSE f.width
HeightOf(f) == IF f.height = NoDim THEN 1 ELSE f.height

IsPortrait(f) == WidthOf(f) <= HeightOf(f)

\* The inner loops of lines 59-61 (portraitOnly) and 65-67 (~portraitOnly)
\* over one video's "video_files".
RECURSIVE FileLinks(_, _)
FileLinks(files, portraitOnly) ==
    IF files = <<>> THEN <<>>
    ELSE LET f == Head(files)
             keep == Truthy(f.link) /\ (portraitOnly => IsPortrait(f))
         IN  (IF keep THEN <<f.link>> ELSE <<>>) \o FileLinks(Tail(files), portraitOnly)

\* The outer loops of lines 58 and 64 over the videos.
RECURSIVE VideoLinks(_, _)
VideoLinks(videos, portraitOnly) ==
    IF videos = <<>> THEN <<>>
    ELSE FileLinks(Head(videos), portraitOnly) \o VideoLinks(Tail(videos), portraitOnly)

PexelsCandidates_NoPortraitFilter(videos) == VideoLinks(videos, FALSE)

\* Lines 57-67: the portrait pool, or the pool of all links when it is empty.
PexelsCandidates(videos) ==
    IF VideoLinks(videos, TRUE) # <<>>
    THEN VideoLinks(videos, TRUE)
    ELSE VideoLinks(videos, FALSE)

ErrNoPexelsVideos == "No Pexels videos found for query."
ErrNoPexelsLink == "No downloadable Pexels video link found."
ErrNoPixabayVideos == "No Pixabay videos found for query."
ErrNoPixabayLink == "No downloadable Pixabay video url found."

PexelsOutcome_OneMessage(videos) ==
    IF PexelsCandidates(videos) = <<>>
    THEN [err |-> ErrNoPexelsVideos, candidates |-> <<>>]
    ELSE [err |-> NoError, candidates |-> PexelsCandidates(videos)]

\* Lines 53-70 of fetch_pexels_video, given the decoded "videos" of the
\* response: the error raised, or the pool random.choice draws from.
PexelsOutcome(videos) ==
    IF videos = <<>>
    THEN [err |-> ErrNoPexelsVideos, candidates |-> <<>>]
    ELSE IF PexelsCandidates(videos) = <<>>
    THEN [err |-> ErrNoPexelsLink, candidates |-> <<>>]
    ELSE [err |-> NoError, candidates |-> PexelsCandidates(videos)]

\* The tuple of line 87.
Tiers == <<"large", "medium", "small", "tiny">>

\* A hit's "videos" object maps each tier to Missing (the tier is not a key),
\* to "" (the tier is present with an empty url) or to its url.
TierUsable(vids, k) == vids[k] # Missing /\ Truthy(vids[k])

RECURSIVE FirstUsableFrom(_, _, _)
FirstUsableFrom(vids, order, i) ==
    IF i > Len(order) THEN <<>>
    ELSE IF TierUsable(vids, order[i]) THEN <<vids[order[i]]>>
    ELSE FirstUsableFrom(vids, order, i + 1)

HitCandidate_SmallestFirst(vids) ==
    FirstUsableFrom(vids, <<"tiny", "small", "medium", "large">>, 1)

\* Lines 86-90 for one hit: the url of the first tier, in the order of
\* Tiers, that is a key with a non-empty url; <<>> when there is none.
HitCandidate(vids) == FirstUsableFrom(vids, Tiers, 1)

\* Lines 84-90.
RECURSIVE PixabayCandidates(_)
PixabayCandidates(hits) ==
    IF hits = <<>> THEN <<>>
    ELSE HitCandidate(Head(hits)) \o PixabayCandidates(Tail(hits))

\* Lines 80-93 of fetch_pixabay_video, given the decoded "hits".
PixabayOutcome(hits) ==
    IF hits = <<>>
    THEN [err |-> ErrNoPixabayVideos, candidates |-> <<>>]
    ELSE IF PixabayCandidates(hits) = <<>>
    THEN [err |-> ErrNoPixabayLink, candidates |-> <<>>]
    ELSE [err |-> NoError, candidates |-> PixabayCandidates(hits)]

----------------------------------------------------------------------------
(* Bounded input spaces.                                                   *)

SeqsUpTo(S, n) == UNION {[1..k -> S] : k \in 0..n}

\* File variants a Pexels response may carry.
FileKinds ==
    { [link |-> "u1", width |-> 1, height |-> 2],
      [link |-> "u2", width |-> 2, height |-> 1],
      [link |-> "u1", width |-> 2, height |-> 1],
      [link |-> "u3", width |-> 2, height |-> 2],
      [link |-> "u4", width |-> NoDim, height |-> NoDim],
      [link |-> Missing, width |-> 1, height |-> 2],
      [link |-> "", width |-> 1, height |-> 2],
      [link |-> Missing, width |-> 2, height |-> 1] }

\* The "videos" arrays of weight at most n, a video weighing one plus the
\* number of its file variants.
RECURSIVE PexelsResponses(_)
PexelsResponses(n) ==
    {<<>>} \cup
    UNION { { <<v>> \o r : v \in [1..k -> FileKinds], r \in PexelsResponses(n - 1 - k) }
            : k \in 0..(n - 1) }

\* The "videos" objects a Pixabay hit may carry.
HitKinds == [large : {Missing, "", "large.mp4"}, medium : {Missing, "", "medium.mp4"},
             small : {Missing, "", "small.mp4"}, tiny : {Missing, "", "tiny.mp4"}]

\* The hits with at most two tiers present.
SimpleHitKinds == {h \in HitKinds : Cardinality({k \in Range(Tiers) : h[k] # Missing}) <= 2}

\* The "hits" arrays: one hit of any kind, or up to n hits of simple kinds.
PixabayResponses(n) == {<<h>> : h \in HitKinds} \cup SeqsUpTo(SimpleHitKinds, n)

\* Bounds of the input spaces.
MaxStrLen == 5        \* length of the texts given to safe_filename
MaxWeight == 5        \* weight of the Pexels responses given to the selection
MaxHits == 2          \* hits of the Pixabay responses given to the selection
MainWeight == 3       \* weight of the Pexels responses main() receives
MainHits == 2         \* hits of the Pixabay responses main() receives

TextChars == {"a", "-", " ", "\t", "!"}

\* Values of the environment variables main() reads.
ScriptValues == {None, <<>>, <<" ">>, <<"\t", " ">>, <<"a">>, <<" ", "a", " ">>}
TopicValues == {None, <<"a", " ", "b">>, <<"a", " ", "!", " ", "b">>, <<"!", "?">>}
ProviderValues ==
    { None, <<>>, BOTH, PEXELS, PIXABAY,
      <<"p","e","x","e","l","s">>, <<"P","e","X","e","L","s">>,
      <<"p","i","x","a","b","a","y">>, <<"P","i","x","a","b","a","y"," ">>,
      <<"v","i","m","e","o">> }
KeyValues == {None, <<>>, <<"k">>}

EnvNames == {"JOB_ID", "TOPIC", "SCRIPT", "PROVIDER", "VOICE",
             "PEXELS_API_KEY", "PIXABAY_API_KEY"}

----------------------------------------------------------------------------
(* main(), lines 102-169, one action per stage.                            *)

Absent == -1               \* size of a file that does not exist
MinFinalSize == 10000      \* the floor of line 159

VoiceWav == "out/voice.wav"
BgMp4 == "out/bg.mp4"
FinalMp4 == "out/final.mp4"

ErrScriptEmpty == "SCRIPT is empty. Pass script input from n8n."
ErrPexelsKey == "PEXELS_API_KEY is missing in GitHub Secrets."
ErrPixabayKey == "PIXABAY_API_KEY is missing in GitHub Secrets."
ErrTts == "Command failed: edge-tts"
ErrFfmpeg == "Command failed: ffmpeg"
ErrHttpSearch == "requests: search failed"
ErrHttpDownload == "requests: download failed"
ErrFinal == "final.mp4 not created or too small."

NoCfg == [job_id |-> None, topic |-> None, script |-> None, provider_pref |-> None,
          voice |-> None, pexels_key |-> None, pixabay_key |-> None]

NoSummary == [printed |-> FALSE]

DefaultJobId == <<"j","o","b","_","0">>
DefaultTopic == <<"t","r","e","n","d">>
DefaultVoice == <<"e","n","-","U","S","-","A","r","i","a","N","e","u","r","a","l">>

\* Lines 103-110.
LoadedCfg(e) ==
    [job_id |-> envOf(e, "JOB_ID", DefaultJobId),
     topic |-> envOf(e, "TOPIC", DefaultTopic),
     script |-> envOf(e, "SCRIPT", <<>>),
     provider_pref |-> envOf(e, "PROVIDER", BOTH),
     voice |-> envOf(e, "VOICE", DefaultVoice),
     pexels_key |-> envOf(e, "PEXELS_API_KEY", <<>>),
     pixabay_key |-> envOf(e, "PIXABAY_API_KEY", <<>>)]

ScriptMissing_NoStrip(script) == script = <<>>

\* Line 112: not script.strip()
ScriptMissing(script) == Strip(script) = <<>>

CredentialMissing_Never(api_key) == FALSE

\* Lines 45 and 73: not api_key
CredentialMissing(api_key) == api_key = <<>>

OutputRejected_ExistsOnly(size) == size = Absent

\* Line 159: not final_mp4.exists() or final_mp4.stat().st_size < 10000
OutputRejected(size) == size = Absent \/ size < MinFinalSize

\* An exception leaving main(): it propagates to the process boundary.
Raise(msg) == pc' = "failed" /\ error' = msg

\* Lines 103-116: load the configuration, require the script.
LoadConfig ==
    /\ pc = "start"
    /\ cfg' = LoadedCfg(environ)
    /\ IF ScriptMissing(LoadedCfg(environ).script)
       THEN Raise(ErrScriptEmpty)
       ELSE pc' = "tts" /\ error' = error
    /\ UNCHANGED <<environ, query, chosen, video_url, fs, procs, http, stdout,
                   summary, inp, out, op>>

\* Lines 119-121, tts_edge and run: edge-tts is started; it leaves voice.wav
\* missing, empty or with audio, and exits with status 0 or not.
Tts ==
    /\ pc = "tts"
    /\ stdout' = Append(stdout, "[TTS]")
    /\ procs' = Append(procs, "edge-tts")
    /\ \E size \in {Absent, 0, 5}, ok \in BOOLEAN :
          /\ fs' = [fs EXCEPT ![VoiceWav] = size]
          /\ IF ok THEN pc' = "pick" /\ error' = error ELSE Raise(ErrTts)
    /\ UNCHANGED <<environ, cfg, query, chosen, video_url, http, summary, inp, out, op>>

\* Lines 124-126: the query and the provider.
PickProvider ==
    /\ pc = "pick"
    /\ query' = safe_filename(cfg.topic, 60)
    /\ chosen' \in pick_provider(cfg.provider_pref)
    /\ stdout' = Append(stdout, "[VIDEO]")
    /\ pc' = "fetch"
    /\ UNCHANGED <<environ, cfg, video_url, fs, procs, http, summary, error, inp, out, op>>

SearchRequest(provider) == [kind |-> "search", to |-> provider]
DownloadRequest(url) == [kind |-> "download", to |-> url]

\* What follows the search request of a fetch: the request fails (transport
\* error or raise_for_status), or the response is decoded and a link chosen.
Searched(provider, outcomes) ==
    /\ http' = Append(http, SearchRequest(provider))
    /\ \/ Raise(ErrHttpSearch) /\ video_url' = video_url
       \/ \E o \in outcomes :
             IF o.err # NoError
             THEN Raise(o.err) /\ video_url' = video_url
             ELSE /\ \E i \in DOMAIN o.candidates : video_url' = o.candidates[i]
                  /\ pc' = "download"
                  /\ error' = error

\* The outcomes of the two selections over the responses main() may receive.
MainPexelsOutcomes == {PexelsOutcome(v) : v \in PexelsResponses(MainWeight)}
MainPixabayOutcomes == {PixabayOutcome(h) : h \in PixabayResponses(MainHits)}

FetchPexelsVideo_Fallback ==
    /\ pc = "fetch"
    /\ chosen = PEXELS
    /\ IF CredentialMissing(cfg.pexels_key)
       THEN Raise(ErrPexelsKey) /\ UNCHANGED <<http, video_url, chosen>>
       ELSE \/ Searched(PEXELS, MainPexelsOutcomes) /\ chosen' = chosen
            \/ /\ http' = Append(http, SearchRequest(PEXELS))
               /\ chosen' = PIXABAY
               /\ UNCHANGED <<pc, error, video_url>>
    /\ UNCHANGED <<environ, cfg, query, fs, procs, stdout, summary, inp, out, op>>

\* Line 130 with fetch_pexels_video, lines 44-70.
FetchPexelsVideo ==
    /\ pc = "fetch"
    /\ chosen = PEXELS
    /\ IF CredentialMissing(cfg.pexels_key)
       THEN Raise(ErrPexelsKey) /\ UNCHANGED <<http, video_url>>
       ELSE Searched(PEXELS, MainPexelsOutcomes)
    /\ UNCHANGED <<environ, cfg, query, chosen, fs, procs, stdout, summary, inp, out, op>>

\* Line 132 with fetch_pixabay_video, lines 72-93.
FetchPixabayVideo ==
    /\ pc = "fetch"
    /\ chosen # PEXELS
    /\ IF CredentialMissing(cfg.pixabay_key)
       THEN Raise(ErrPixabayKey) /\ UNCHANGED <<http, video_url>>
       ELSE Searched(PIXABAY, MainPixabayOutcomes)
    /\ UNCHANGED <<environ, cfg, query, chosen, fs, procs, stdout, summary, inp, out, op>>

\* Lines 134-137 with download_file, lines 35-42: the request fails before
\* the file is opened, or the file is opened (created, truncated) and the
\* body, possibly empty, is written; the stream may break after the open.
Download ==
    /\ pc = "download"
    /\ stdout' = Append(stdout, "[DOWNLOAD]")
    /\ http' = Append(http, DownloadRequest(video_url))
    /\ \/ Raise(ErrHttpDownload) /\ fs' = fs
       \/ \E size \in {0, 3} :
             /\ fs' = [fs EXCEPT ![BgMp4] = size]
             /\ Raise(ErrHttpDownload)
       \/ \E size \in {0, 7} :
             /\ fs' = [fs EXCEPT ![BgMp4] = size]
             /\ pc' = "encode"
             /\ error' = error
    /\ UNCHANGED <<environ, cfg, query, chosen, video_url, procs, summary, inp, out, op>>

\* Lines 140-157 with run: ffmpeg is started; it leaves final.mp4 missing
\* or writes some bytes of it, and exits with status 0 or not.
Encode ==
    /\ pc = "encode"
    /\ stdout' = Append(stdout, "[FFMPEG]")
    /\ procs' = Append(procs, "ffmpeg")
    /\ \E size \in {Absent, 0, MinFinalSize - 1, MinFinalSize, MinFinalSize + 1},
          ok \in BOOLEAN :
          /\ fs' = [fs EXCEPT ![FinalMp4] = size]
          /\ IF ok THEN pc' = "validate" /\ error' = error ELSE Raise(ErrFfmpeg)
    /\ UNCHANGED <<environ, cfg, query, chosen, video_url, http, summary, inp, out, op>>

\* Lines 159-169: the size check, then the summary.
Validate ==
    /\ pc = "validate"
    /\ IF OutputRejected(fs[FinalMp4])
       THEN Raise(ErrFinal) /\ UNCHANGED <<stdout, summary>>
       ELSE /\ stdout' = stdout \o <<"DONE", "summary">>
            /\ summary' = [printed |-> TRUE, job_id |-> cfg.job_id,
                           topic |-> cfg.topic, provider |-> chosen,
                           voice |-> cfg.voice, output |-> FinalMp4]
            /\ pc' = "done"
            /\ error' = error
    /\ UNCHANGED <<environ, cfg, query, chosen, video_url, fs, procs, http,
                   inp, out, op>>

Init ==
    /\ \E script \in ScriptValues, topic \in TopicValues,
          provider \in ProviderValues, key1 \in KeyValues, key2 \in KeyValues :
          environ = [n \in EnvNames |->
                       CASE n = "SCRIPT" -> script
                         [] n = "TOPIC" -> topic
                         [] n = "PROVIDER" -> provider
                         [] n = "PEXELS_API_KEY" -> key1
                         [] n = "PIXABAY_API_KEY" -> key2
                         [] OTHER -> None]
    /\ pc = "start"
    /\ cfg = NoCfg
    /\ query = None
    /\ chosen = None
    /\ video_url = ""
    /\ fs = [f \in {VoiceWav, BgMp4, FinalMp4} |-> Absent]
    /\ procs = <<>>
    /\ http = <<>>
    /\ stdout = <<>>
    /\ summary = NoSummary
    /\ error = NoError
    /\ inp = None
    /\ out = None
    /\ op = "off"

Next ==
    \/ LoadConfig
    \/ Tts
    \/ PickProvider
    \/ FetchPexelsVideo
    \/ FetchPixabayVideo
    \/ Download
    \/ Encode
    \/ Validate

Spec == Init /\ [][Next]_vars

----------------------------------------------------------------------------
(* The helper functions applied on their own to every input of the bounded *)
(* input spaces: one call per behaviour.                                   *)

mainVars == <<environ, pc, cfg, query, chosen, video_url, fs, procs, http,
              stdout, summary, error>>

\* safe_filename(s, max_len) with the two lengths the program uses: 60 at
\* line 124 and the default 80 of line 17.
CallSafeFilename ==
    /\ op = "idle"
    /\ inp.kind = "text"
    /\ \E max_len \in {60, 80} :
          out' = [max_len |-> max_len, value |-> safe_filename(inp.value, max_len)]
    /\ op' = "safe_filename"
    /\ UNCHANGED <<mainVars, inp>>

\* The result of a fetch once the response is decoded: the error raised, or
\* the pool and the link random.choice draws from it.
Selected(o) ==
    IF o.err # NoError
    THEN out' = [err |-> o.err, pool |-> <<>>, link |-> ""]
    ELSE \E i \in DOMAIN o.candidates :
            out' = [err |-> NoError, pool |-> o.candidates, link |-> o.candidates[i]]

\* fetch_pexels_video, lines 53-70, on a decoded search response.
CallFetchPexelsVideo ==
    /\ op = "idle"
    /\ inp.kind = "videos"
    /\ Selected(PexelsOutcome(inp.value))
    /\ op' = "fetch_pexels_video"
    /\ UNCHANGED <<mainVars, inp>>

\* fetch_pixabay_video, lines 80-93, on a decoded search response.
CallFetchPixabayVideo ==
    /\ op = "idle"
    /\ inp.kind = "hits"
    /\ Selected(PixabayOutcome(inp.value))
    /\ op' = "fetch_pixabay_video"
    /\ UNCHANGED <<mainVars, inp>>

InitHelpers ==
    /\ environ = [n \in EnvNames |-> None]
    /\ pc = "off"
    /\ cfg = NoCfg
    /\ query = None
    /\ chosen = None
    /\ video_url = ""
    /\ fs = [f \in {VoiceWav, BgMp4, FinalMp4} |-> Absent]
    /\ procs = <<>>
    /\ http = <<>>
    /\ stdout = <<>>
    /\ summary = NoSummary
    /\ error = NoError
    /\ inp \in {[kind |-> "text", value |-> s] : s \in SeqsUpTo(TextChars, MaxStrLen)}
           \cup {[kind |-> "videos", value |-> v] : v \in PexelsResponses(MaxWeight)}
           \cup {[kind |-> "hits", value |-> h] : h \in PixabayResponses(MaxHits)}
    /\ out = None
    /\ op = "idle"

NextHelpers ==
    \/ CallSafeFilename
    \/ CallFetchPexelsVideo
    \/ CallFetchPixabayVideo

SpecHelpers == InitHelpers /\ [][NextHelpers]_vars

----------------------------------------------------------------------------
(* Properties of main(), checked under Spec.                               *)

\* The encoder has returned with exit status 0.
EncoderReturnedZero ==
    pc \in {"validate", "done"} \/ (pc = "failed" /\ error = ErrFinal)

\* C1: when the encoder returned status 0, the summary is printed and the
\* run succeeds only if out/final.mp4 exists with at least 10000 bytes; when
\* the file is absent, empty or below the floor the run ends in the
\* output-validation error and no summary is printed.
C1_SuccessNeedsPlausibleOutput ==
    /\ (summary.printed \/ "summary" \in Range(stdout) \/ pc = "done")
          => /\ EncoderReturnedZero
             /\ fs[FinalMp4] # Absent
             /\ fs[FinalMp4] >= 10000
    /\ (/\ pc \in {"done", "failed"}
        /\ EncoderReturnedZero
        /\ (fs[FinalMp4] = Absent \/ fs[FinalMp4] < 10000))
          => /\ pc = "failed"
             /\ error = ErrFinal
             /\ ~summary.printed
             /\ "summary" \notin Range(stdout)

C1_Witness ==
    /\ pc = "failed"
    /\ error = ErrFinal
    /\ procs = <<"edge-tts", "ffmpeg">>
    /\ fs[FinalMp4] = 0

\* The value of SCRIPT is unset, empty or whitespace only.
ScriptBlank ==
    \/ environ["SCRIPT"] = None
    \/ \A i \in DOMAIN environ["SCRIPT"] : IsSpace(environ["SCRIPT"][i])

\* C2: with SCRIPT unset, empty or whitespace-only, main() fails with the
\* configuration error before any subprocess is started and before any HTTP
\* request is issued.
C2_BlankScriptFailsFirst ==
    (pc # "start" /\ ScriptBlank)
       => /\ pc = "failed"
          /\ error = ErrScriptEmpty
          /\ procs = <<>>
          /\ http = <<>>

C2_Witness ==
    /\ pc = "failed"
    /\ error = ErrScriptEmpty
    /\ environ["SCRIPT"] = <<"\t", " ">>

\* The file a stage writes.
OutputOf(stage) ==
    CASE stage = "tts" -> {VoiceWav}
      [] stage = "download" -> {BgMp4}
      [] stage = "encode" -> {FinalMp4}
      [] OTHER -> {}

\* What has run when main() has failed: the stages before the failing one,
\* once each, and one provider only.
C3_Aborted ==
    /\ (error # NoError) <=> (pc = "failed")
    /\ pc = "failed" =>
          /\ ~summary.printed
          /\ "summary" \notin Range(stdout)
          /\ "DONE" \notin Range(stdout)
          /\ error = ErrScriptEmpty => procs = <<>> /\ http = <<>>
          /\ error \in {ErrTts, ErrPexelsKey, ErrPixabayKey}
                => procs = <<"edge-tts">> /\ http = <<>>
          /\ error = ErrTts => chosen = None
          /\ error \in {ErrHttpSearch, ErrNoPexelsVideos, ErrNoPexelsLink,
                        ErrNoPixabayVideos, ErrNoPixabayLink}
                => procs = <<"edge-tts">> /\ http = <<SearchRequest(chosen)>>
          /\ error \in {ErrNoPexelsVideos, ErrNoPexelsLink, ErrPexelsKey}
                => chosen = PEXELS
          /\ error \in {ErrNoPixabayVideos, ErrNoPixabayLink, ErrPixabayKey}
                => chosen = PIXABAY
          /\ error = ErrHttpDownload
                => /\ procs = <<"edge-tts">>
                   /\ http = <<SearchRequest(chosen), DownloadRequest(video_url)>>
          /\ error \in {ErrFfmpeg, ErrFinal}
                => /\ procs = <<"edge-tts", "ffmpeg">>
                   /\ http = <<SearchRequest(chosen), DownloadRequest(video_url)>>

\* A failing step leaves the files of the earlier stages as they are, and
\* nothing changes once main() has failed.
C3_Step ==
    /\ pc = "failed" => UNCHANGED vars
    /\ (pc # "failed" /\ pc' = "failed")
          => \A f \in DOMAIN fs : f \notin OutputOf(pc) => fs'[f] = fs[f]

\* C3: a stage failure aborts the pipeline at once: no later stage runs, the
\* failed stage is not retried, the other provider is not tried, the summary
\* is never printed, and the artifacts already written stay as they are.
C3_FailureAborts == [](C3_Aborted) /\ [][C3_Step]_vars

C3_Witness ==
    /\ pc = "failed"
    /\ error = ErrNoPexelsVideos
    /\ cfg.pixabay_key # <<>>
    /\ fs[VoiceWav] = 5

\* C4: the encoder is never started to write out/final.mp4 unless
\* out/voice.wav and out/bg.mp4 both exist and are non-empty.
C4_EncoderNeedsBothInputs ==
    ("ffmpeg" \in Range(procs) \/ fs[FinalMp4] # Absent)
       => /\ fs[VoiceWav] # Absent /\ fs[VoiceWav] > 0
          /\ fs[BgMp4] # Absent /\ fs[BgMp4] > 0

\* The credential of the provider that was selected is unset or empty.
SelectedKeyEmpty ==
    environ[IF chosen = PEXELS THEN "PEXELS_API_KEY" ELSE "PIXABAY_API_KEY"]
       \in {None, <<>>}

\* C5: with the selected provider's credential missing, the fetch fails with
\* the credential error and no HTTP request, search or download, is issued.
C5_NoRequestWithoutCredential ==
    (chosen # None /\ pc # "fetch" /\ SelectedKeyEmpty)
       => /\ pc = "failed"
          /\ error = (IF chosen = PEXELS THEN ErrPexelsKey ELSE ErrPixabayKey)
          /\ http = <<>>

C5_Witness ==
    /\ pc = "failed"
    /\ error = ErrPixabayKey
    /\ environ["PIXABAY_API_KEY"] = None
    /\ environ["PEXELS_API_KEY"] = <<"k">>

\* a and b are the same text up to the case of the letters.
EqualsIgnoreCase(a, b) ==
    Len(a) = Len(b) /\ \A i \in DOMAIN a : UpperChar(a[i]) = UpperChar(b[i])

\* C9: a PROVIDER value that is a provider's name up to case always resolves
\* to that provider; any other value resolves to one of the two providers;
\* the provider queried is the one the summary reports.
C9_ProviderResolution ==
    chosen # None =>
       /\ chosen \in {PEXELS, PIXABAY}
       /\ \A P \in {PEXELS, PIXABAY} :
             (environ["PROVIDER"] # None /\ EqualsIgnoreCase(environ["PROVIDER"], P))
                => chosen = P
       /\ \A i \in DOMAIN http : http[i].kind = "search" => http[i].to = chosen
       /\ summary.printed
             => /\ summary.provider = chosen
                /\ http[1] = SearchRequest(summary.provider)

C9_Witness ==
    /\ summary.printed
    /\ environ["PROVIDER"] = <<"P","e","X","e","L","s">>
    /\ summary.provider = PEXELS

----------------------------------------------------------------------------
(* Properties of the helper functions, checked under SpecHelpers.          *)

\* The file variants of the Pexels response given to the call.
ResponseFiles == UNION {Range(inp.value[v]) : v \in DOMAIN inp.value}

\* The links of the variants with width <= height that carry a link.
LinkedPortraitLinks ==
    {f.link : f \in {g \in ResponseFiles : Truthy(g.link) /\ IsPortrait(g)}}

\* C6, as stated: when some file variant has width <= height, the returned
\* link is the link of a variant with width <= height.
C6_AnyPortraitVariant ==
    (/\ op = "fetch_pexels_video"
     /\ out.err = NoError
     /\ \E f \in ResponseFiles : IsPortrait(f))
       => \E f \in ResponseFiles : IsPortrait(f) /\ f.link = out.link

\* C6, amended: when some file variant that carries a non-empty link has
\* width <= height, the pool and the returned link hold only links of such
\* variants; the pool of all links is used only when there is no such variant.
C6_LinkedPortraitOnly ==
    (op = "fetch_pexels_video" /\ out.err = NoError)
       => /\ out.link \in Range(out.pool)
          /\ LinkedPortraitLinks # {} => Range(out.pool) \subseteq LinkedPortraitLinks
          /\ (\E i \in DOMAIN out.pool : out.pool[i] \notin LinkedPortraitLinks)
                => LinkedPortraitLinks = {}

C6_Witness ==
    /\ op = "fetch_pexels_video"
    /\ out.err = NoError
    /\ \E f, g \in ResponseFiles :
          /\ Truthy(f.link) /\ f.width = 1 /\ f.height = 2
          /\ Truthy(g.link) /\ g.width = 2 /\ g.height = 1
          /\ g.link \notin LinkedPortraitLinks
          /\ out.link = f.link

\* C7: safe_filename is idempotent for max_len 60 and 80: applied to its own
\* result it returns that result unchanged.
C7_SanitizeIdempotent ==
    op = "safe_filename" => safe_filename(out.value, out.max_len) = out.value

\* The non-empty links (urls) that appear anywhere in the response.
UsableLinks ==
    IF inp.kind = "videos"
    THEN {f.link : f \in {g \in ResponseFiles : Truthy(g.link)}}
    ELSE UNION {{inp.value[j][k] : k \in {t \in Range(Tiers) : Truthy(inp.value[j][t])}}
                  : j \in DOMAIN inp.value}

NoVideosError == IF op = "fetch_pexels_video" THEN ErrNoPexelsVideos ELSE ErrNoPixabayVideos
NoLinkError == IF op = "fetch_pexels_video" THEN ErrNoPexelsLink ELSE ErrNoPixabayLink

\* C8: for both providers, zero results give the no-media-found error;
\* results without any usable link give the distinct no-downloadable-link
\* error; a link is returned exactly when some result carries a usable link,
\* and the returned link appears in the response.
C8_FetchOutcomes ==
    op \in {"fetch_pexels_video", "fetch_pixabay_video"} =>
       /\ NoVideosError # NoLinkError
       /\ inp.value = <<>> => out.err = NoVideosError
       /\ (inp.value # <<>> /\ UsableLinks = {}) => out.err = NoLinkError
       /\ (out.err = NoError) <=> (UsableLinks # {})
       /\ out.err = NoError => out.link \in UsableLinks

C8_Witness ==
    /\ op = "fetch_pexels_video"
    /\ Len(inp.value) = 2
    /\ ResponseFiles # {}
    /\ out.err = ErrNoPexelsLink

\* Positions in Tiers of the tiers that are keys of a hit's "videos".
PresentTiers(vids) == {k \in DOMAIN Tiers : vids[Tiers[k]] # Missing}

\* Positions in Tiers of the tiers that are keys with a non-empty url.
UsableTiers(vids) == {k \in DOMAIN Tiers : vids[Tiers[k]] \notin {Missing, ""}}

Least(S) == CHOOSE x \in S : \A y \in S : x <= y

\* C10, as stated: at most one candidate per result, and the returned link
\* is, for some result, the url of the largest tier present in it.
C10_FirstPresentTier ==
    op = "fetch_pixabay_video" =>
       /\ Len(out.pool) <= Len(inp.value)
       /\ out.err = NoError =>
             \E j \in DOMAIN inp.value :
                /\ PresentTiers(inp.value[j]) # {}
                /\ out.link = inp.value[j][Tiers[Least(PresentTiers(inp.value[j]))]]

\* The candidate the amended claim gives a hit.
ExpectedCandidate(vids) ==
    IF UsableTiers(vids) = {} THEN <<>>
    ELSE <<vids[Tiers[Least(UsableTiers(vids))]]>>

RECURSIVE Flatten(_)
Flatten(ss) == IF ss = <<>> THEN <<>> ELSE Head(ss) \o Flatten(Tail(ss))

\* C10, amended: at most one candidate per result, the url of the largest
\* tier that is present with a non-empty url (a result without one gives no
\* candidate), and the returned link is one of these candidates.
C10_FirstUsableTier ==
    op = "fetch_pixabay_video" =>
       /\ Len(out.pool) <= Len(inp.value)
       /\ out.err = NoError =>
             /\ out.pool = Flatten([j \in DOMAIN inp.value |->
                                      ExpectedCandidate(inp.value[j])])
             /\ out.link \in Range(out.pool)

C10_Witness ==
    /\ op = "fetch_pixabay_video"
    /\ Len(inp.value) = 2
    /\ inp.value[1].large = ""
    /\ inp.value[1].medium = "medium.mp4"
    /\ inp.value[2].small = "small.mp4"
    /\ inp.value[2].tiny = "tiny.mp4"
    /\ out.link = "medium.mp4"

====
